---- MODULE Spec2Model ----
(***************************************************************************)
(* A model of tracker/reports.py (ReportGenerator): the analytics engine,  *)
(* the evidence selector, the section synthesizer and the report           *)
(* assembler, as one generate() call stepping through its statements.      *)
(*                                                                         *)
(* Texts are sequences of tokens.  A character of input data (a summary    *)
(* text, a backend response, a project label) is one token; a string       *)
(* literal of the code is one token.  The empty sequence is the empty      *)
(* string, and also stands for an absent or None text, which the code      *)
(* treats alike (s.get('summary') is falsy for all three).                 *)
(*                                                                         *)
(* Minutes are kept in seconds (minutes * 60), so that interval_seconds/60 *)
(* and its sums are exact; int(mins) is then secs \div 60.  The intervals  *)
(* drawn are multiples of 15 s, whose minute values (k/4) and sums are     *)
(* exact in binary floating point as well.                                 *)
(***************************************************************************)
EXTENDS Integers, Sequences, FiniteSets, TLC

VARIABLES
    pc,               \* position of the generate() call
    args,             \* generate()'s parameters
    summaries,        \* storage.get_summaries_in_range
    by_project,       \* storage.get_summaries_by_project (ordered dict), or {}
    screenshots,      \* storage.get_screenshots_in_range
    sessions,         \* storage.get_sessions_in_range
    interval_seconds, \* config.config.capture.interval_seconds
    backend,          \* the summarizer's behaviour during this call
    analytics,        \* <<>> or <<ReportAnalytics>>
    key_screenshots,  \* the local key_screenshots of generate()
    report,           \* <<>> or <<Report>>
    calls,            \* the calls made to the collaborators, in order
    raised            \* "" or the exception that left generate()

vars == <<pc, args, summaries, by_project, screenshots, sessions,
          interval_seconds, backend, analytics, key_screenshots, report, calls,
          raised>>

\* ------------------------------------------------------------------ bounds

MaxShots == 3
MaxSums == 2
MaxCount == 4

\* ----------------------------------------------------------------- helpers

Min2(a, b) == IF a < b THEN a ELSE b

Max2(a, b) == IF a > b THEN a ELSE b

InSeq(x, s) == \E i \in 1..Len(s) : s[i] = x

Take(s, n) == SubSeq(s, 1, Min2(n, Len(s)))

\* All sequences over S of length 0..n.
SeqsUpTo(S, n) == UNION {[1..k -> S] : k \in 0..n}

\* -------------------------------------------------------- evidence selector

Absent == "<absent>"

\* ss.get('app_name', 'Unknown')
GetAppName(ss) == IF ss.app_name = Absent THEN "Unknown" ELSE ss.app_name

\* summary.get('screenshot_ids', []), json.loads when it is a string
JsonLoads(encoded) == encoded.json

ScreenshotIds(summary) ==
    IF summary.screenshot_ids.is_str
    THEN JsonLoads(summary.screenshot_ids)
    ELSE summary.screenshot_ids.list

\* The inner loop: the first screenshot the summary references that passes
\* the diversity test; 0 when the loop ends without a break.
RECURSIVE FirstPick(_, _, _, _, _, _)
FirstPick(shots, ss_ids, selected, seen_apps, max_count, i) ==
    IF i > Len(shots) THEN 0
    ELSE IF /\ shots[i].id \in ss_ids
            /\ \/ GetAppName(shots[i]) \notin seen_apps
               \/ Len(selected) < max_count \div 2
         THEN i
         ELSE FirstPick(shots, ss_ids, selected, seen_apps, max_count, i + 1)

\* The per-summary loop, from summary k on.
RECURSIVE PerSummaryFrom(_, _, _, _, _, _)
PerSummaryFrom(shots, sums, max_count, k, selected, seen_apps) ==
    IF k > Len(sums) THEN selected
    ELSE LET i == FirstPick(shots, ScreenshotIds(sums[k]), selected,
                            seen_apps, max_count, 1)
             sel2 == IF i = 0 THEN selected ELSE Append(selected, shots[i])
             seen2 == IF i = 0 THEN seen_apps
                      ELSE seen_apps \cup {GetAppName(shots[i])}
         IN IF Len(sel2) >= max_count THEN sel2
            ELSE PerSummaryFrom(shots, sums, max_count, k + 1, sel2, seen2)

PerSummaryPhase(shots, sums, max_count) ==
    PerSummaryFrom(shots, sums, max_count, 1, <<>>, {})

\* for i in range(0, len(screenshots), stride), from 0-based index i on.
RECURSIVE BackfillFrom(_, _, _, _, _)
BackfillFrom(shots, max_count, stride, i, selected) ==
    IF i >= Len(shots) THEN selected
    ELSE LET sel2 == IF InSeq(shots[i + 1], selected) THEN selected
                     ELSE Append(selected, shots[i + 1])
         IN IF Len(sel2) >= max_count THEN sel2
            ELSE BackfillFrom(shots, max_count, stride, i + stride, sel2)

BackfillPhase(shots, max_count, selected) ==
    IF Len(selected) < max_count /\ Len(shots) > 0
    THEN LET remaining == max_count - Len(selected)
             step == Len(shots) \div Max2(remaining, 1)
         IN BackfillFrom(shots, max_count, Max2(step, 1), 0, selected)
    ELSE selected

\* Mutant: the final slice dropped.
TruncateNone(selected, max_count) == selected

\* return selected[:max_count]
Truncate(selected, max_count) == Take(selected, max_count)

SelectKeyScreenshots(shots, sums, max_count) ==
    IF Len(shots) = 0 THEN <<>>
    ELSE Truncate(BackfillPhase(shots, max_count,
                                PerSummaryPhase(shots, sums, max_count)),
                  max_count)

\* ---------------------------------------------------------- analytics engine

\* An insertion-ordered dict is a sequence of [k, v] entries with unique keys.
\* d[k] = d.get(k, 0) + v
DictAdd(d, k, v) ==
    IF \E i \in 1..Len(d) : d[i].k = k
    THEN [i \in 1..Len(d) |-> IF d[i].k = k THEN [k |-> k, v |-> d[i].v + v]
                                            ELSE d[i]]
    ELSE Append(d, [k |-> k, v |-> v])

RECURSIVE SumValues(_)
SumValues(d) == IF Len(d) = 0 THEN 0 ELSE d[1].v + SumValues(Tail(d))

RECURSIVE SumSeq(_)
SumSeq(s) == IF Len(s) = 0 THEN 0 ELSE s[1] + SumSeq(Tail(s))

\* int(mins), mins kept in seconds
IntMinutes(secs) == secs \div 60

\* sum((s.get('duration_seconds') or 0) // 60 for s in sessions);
\* a session's duration is <<>> (absent or None) or <<seconds>>.
RECURSIVE SessionMinutes(_)
SessionMinutes(sess) ==
    IF Len(sess) = 0 THEN 0
    ELSE (IF Len(sess[1].duration_seconds) = 0 THEN 0
          ELSE sess[1].duration_seconds[1] \div 60)
         + SessionMinutes(Tail(sess))

\* ss.get('app_name', 'Unknown') or 'Unknown'
AppOrUnknown(ss) == IF GetAppName(ss) = "" THEN "Unknown" ELSE GetAppName(ss)

RECURSIVE AppMinutes(_, _)
AppMinutes(shots, iv) ==
    IF Len(shots) = 0 THEN <<>>
    ELSE DictAdd(AppMinutes(SubSeq(shots, 1, Len(shots) - 1), iv),
                 AppOrUnknown(shots[Len(shots)]), iv)

\* round(x, 1) of num/den, in tenths: to nearest, ties to even.  With fewer
\* than 16 screenshots no percentage is a tie, and the float quotient rounds
\* as the exact one does.
RoundTenths(num, den) ==
    LET q == (num * 10) \div den
        r == (num * 10) % den
    IN IF 2 * r < den THEN q
       ELSE IF 2 * r > den THEN q + 1
       ELSE IF q % 2 = 0 THEN q ELSE q + 1

\* round(mins / total_app_minutes * 100, 1), in tenths of a percent
Percentage(mins, total_app_minutes) == RoundTenths(mins * 100, total_app_minutes)

\* sum(app_minutes.values()) or 1   (1 minute = 60 seconds)
TotalAppMinutes(app_minutes) ==
    IF SumValues(app_minutes) = 0 THEN 60 ELSE SumValues(app_minutes)

\* sorted(..., key=lambda x: -x['minutes']): stable, descending
RECURSIVE SortByMinutesDesc(_)
SortByMinutesDesc(s) ==
    IF Len(s) = 0 THEN <<>>
    ELSE LET init == SortByMinutesDesc(SubSeq(s, 1, Len(s) - 1))
             x == s[Len(s)]
             n == Cardinality({i \in 1..Len(init) : init[i].minutes >= x.minutes})
         IN SubSeq(init, 1, n) \o <<x>> \o SubSeq(init, n + 1, Len(init))

TopN == 10

TopApps(app_minutes) ==
    Take(SortByMinutesDesc(
             [i \in 1..Len(app_minutes) |->
                 [name |-> app_minutes[i].k,
                  minutes |-> IntMinutes(app_minutes[i].v),
                  percentage |-> Percentage(app_minutes[i].v,
                                            TotalAppMinutes(app_minutes))]]),
         TopN)

TitleMax == 50

\* ss.get('window_title', 'Unknown') or 'Unknown', cut to 50 characters
WindowTitle(ss) ==
    LET title == IF Len(ss.window_title) = 0 THEN <<"Unknown">>
                 ELSE ss.window_title
    IN IF Len(title) > TitleMax THEN SubSeq(title, 1, TitleMax) \o <<"...">>
       ELSE title

RECURSIVE WindowMinutes(_, _)
WindowMinutes(shots, iv) ==
    IF Len(shots) = 0 THEN <<>>
    ELSE DictAdd(WindowMinutes(SubSeq(shots, 1, Len(shots) - 1), iv),
                 WindowTitle(shots[Len(shots)]), iv)

TopWindows(window_minutes) ==
    Take(SortByMinutesDesc(
             [i \in 1..Len(window_minutes) |->
                 [title |-> window_minutes[i].k,
                  minutes |-> IntMinutes(window_minutes[i].v)]]),
         TopN)

\* A timestamp is [is_int, v]: an integer epoch, here <<hours of local time>>,
\* or an ISO string, here <<day, hour>>, or <<>> for a string that does not
\* parse.  A datetime is [day, hour].
FromTimestamp(v) == [day |-> v[1] \div 24, hour |-> v[1] % 24]

IsoParses(v) == Len(v) = 2

FromIsoformat(v) == [day |-> v[1], hour |-> v[2]]

TsParses(ts) == ts.is_int \/ IsoParses(ts.v)

ToDatetime(ts) == IF ts.is_int THEN FromTimestamp(ts.v) ELSE FromIsoformat(ts.v)

\* strftime('%Y-%m-%d'): the zero-padded date sorts as its day number does
DateStr(dt) == dt.day

ActivityByHourRaw(shots, iv) ==
    [h \in 1..24 |->
        iv * Cardinality({i \in 1..Len(shots) :
                              ToDatetime(shots[i].timestamp).hour = h - 1})]

\* Mutant: each screenshot adds int(interval_minutes) to its hour.
ActivityByHourPerShot(shots, iv) ==
    [h \in 1..24 |->
        IntMinutes(iv) * Cardinality({i \in 1..Len(shots) :
                                         ToDatetime(shots[i].timestamp).hour = h - 1})]

\* [int(h) for h in activity_by_hour]; entry h + 1 is hour h
ActivityByHour(shots, iv) ==
    [h \in 1..24 |-> IntMinutes(ActivityByHourRaw(shots, iv)[h])]

RECURSIVE DayMinutes(_, _)
DayMinutes(shots, iv) ==
    IF Len(shots) = 0 THEN <<>>
    ELSE DictAdd(DayMinutes(SubSeq(shots, 1, Len(shots) - 1), iv),
                 DateStr(ToDatetime(shots[Len(shots)].timestamp)), iv)

\* Mutant: the entries in the order they were inserted.
SortByKeyNone(d) == d

\* sorted(day_minutes.items()): ascending by date
RECURSIVE SortByKey(_)
SortByKey(d) ==
    IF Len(d) = 0 THEN <<>>
    ELSE LET init == SortByKey(SubSeq(d, 1, Len(d) - 1))
             x == d[Len(d)]
             n == Cardinality({i \in 1..Len(init) : init[i].k < x.k})
         IN SubSeq(init, 1, n) \o <<x>> \o SubSeq(init, n + 1, Len(init))

ActivityByDay(shots, iv) ==
    LET sorted == SortByKey(DayMinutes(shots, iv))
    IN [i \in 1..Len(sorted) |->
           [date |-> sorted[i].k, minutes |-> IntMinutes(sorted[i].v)]]

\* strftime('%A'); day 0 is taken to be a Monday
WeekdayName(day) ==
    <<"Monday", "Tuesday", "Wednesday", "Thursday", "Friday", "Saturday",
      "Sunday">>[(day % 7) + 1]

Period(hour) ==
    IF hour < 12 THEN "morning" ELSE IF hour < 17 THEN "afternoon" ELSE "evening"

\* f"{day} {period}"
PeriodKey(dt) == <<WeekdayName(dt.day), " ", Period(dt.hour)>>

RECURSIVE PeriodCounts(_)
PeriodCounts(shots) ==
    IF Len(shots) = 0 THEN <<>>
    ELSE DictAdd(PeriodCounts(SubSeq(shots, 1, Len(shots) - 1)),
                 PeriodKey(ToDatetime(shots[Len(shots)].timestamp)), 1)

\* Mutant: the last entry with the highest count.
LastMax(d) ==
    LET i == CHOOSE i \in 1..Len(d) :
                 /\ \A j \in 1..Len(d) : d[j].v <= d[i].v
                 /\ \A j \in (i + 1)..Len(d) : d[j].v < d[i].v
    IN d[i].k

\* max(items, key=count): the first entry with the highest count
FirstMax(d) ==
    LET i == CHOOSE i \in 1..Len(d) :
                 /\ \A j \in 1..Len(d) : d[j].v <= d[i].v
                 /\ \A j \in 1..(i - 1) : d[j].v < d[i].v
    IN d[i].k

FindBusiestPeriod(shots) ==
    IF Len(shots) = 0 THEN <<"No activity">>
    ELSE FirstMax(PeriodCounts(shots))

\* Mutant: the minutes of the sessions, with no fallback.
TotalActiveMinutesNoFallback(total_minutes, app_minutes) == total_minutes

\* total_minutes or int(sum(app_minutes.values()))
TotalActiveMinutes(total_minutes, app_minutes) ==
    IF total_minutes # 0 THEN total_minutes
    ELSE IntMinutes(SumValues(app_minutes))

ComputeAnalyticsOf(shots, sess, iv) ==
    [total_active_minutes |->
         TotalActiveMinutes(SessionMinutes(sess), AppMinutes(shots, iv)),
     total_sessions |-> Len(sess),
     top_apps |-> TopApps(AppMinutes(shots, iv)),
     top_windows |-> TopWindows(WindowMinutes(shots, iv)),
     activity_by_hour |-> ActivityByHour(shots, iv),
     activity_by_day |-> ActivityByDay(shots, iv),
     busiest_period |-> FindBusiestPeriod(shots)]

\* The timestamps are parsed with no try/except: one that does not parse
\* raises out of _compute_analytics.
AnalyticsRaises(shots) == \E i \in 1..Len(shots) : ~TsParses(shots[i].timestamp)

\* -------------------------------------------------------------------- texts

\* sep.join(parts)
RECURSIVE Join(_, _)
Join(parts, sep) ==
    IF Len(parts) = 0 THEN <<>>
    ELSE IF Len(parts) = 1 THEN parts[1]
    ELSE parts[1] \o sep \o Join(Tail(parts), sep)

\* text.split('\n'): the lines, the empty ones included
RECURSIVE SplitLines(_)
SplitLines(text) ==
    IF \A i \in 1..Len(text) : text[i] # "\n" THEN <<text>>
    ELSE LET i == CHOOSE i \in 1..Len(text) :
                      /\ text[i] = "\n"
                      /\ \A j \in 1..(i - 1) : text[j] # "\n"
         IN <<SubSeq(text, 1, i - 1)>> \o SplitLines(SubSeq(text, i + 1, Len(text)))

IsSpace(c) == c \in {" ", "\t", "\r"}

RECURSIVE LStrip(_)
LStrip(t) == IF Len(t) > 0 /\ IsSpace(t[1]) THEN LStrip(Tail(t)) ELSE t

RECURSIVE RStrip(_)
RStrip(t) ==
    IF Len(t) > 0 /\ IsSpace(t[Len(t)]) THEN RStrip(SubSeq(t, 1, Len(t) - 1))
    ELSE t

\* line.strip()
Strip(t) == RStrip(LStrip(t))

\* line.startswith(prefix)
StartsWith(t, prefix) ==
    Len(t) >= Len(prefix) /\ SubSeq(t, 1, Len(prefix)) = prefix

UpperLetters ==
    <<"A", "B", "C", "D", "E", "F", "G", "H", "I", "J", "K", "L", "M",
      "N", "O", "P", "Q", "R", "S", "T", "U", "V", "W", "X", "Y", "Z">>

LowerLetters ==
    <<"a", "b", "c", "d", "e", "f", "g", "h", "i", "j", "k", "l", "m",
      "n", "o", "p", "q", "r", "s", "t", "u", "v", "w", "x", "y", "z">>

\* project.lower()
Lower(t) ==
    [i \in 1..Len(t) |->
        IF \E k \in 1..26 : UpperLetters[k] = t[i]
        THEN LowerLetters[CHOOSE k \in 1..26 : UpperLetters[k] = t[i]]
        ELSE t[i]]

\* Mutant: a text is never cut.
EllipsizeNone(text, n) == text

\* text[:n] + '...' if len(text) > n else text
Ellipsize(text, n) ==
    IF Len(text) > n THEN SubSeq(text, 1, n) \o <<"...">> ELSE text

\* [s['summary'] for s in summaries if s.get('summary')]
RECURSIVE SummaryTexts(_)
SummaryTexts(sums) ==
    IF Len(sums) = 0 THEN <<>>
    ELSE (IF Len(sums[1].summary) > 0 THEN <<sums[1].summary>> ELSE <<>>)
         \o SummaryTexts(Tail(sums))

\* ---------------------------------------------------------- narrative backend

\* The backend of one generate() call: is_available() answers `available`;
\* the fail_at-th generate_text call raises (0: none does), every other one
\* returns `text`.  A synthesis carries the log of the calls made so far: the
\* methods of the generator entered, and the generate_text calls, each naming
\* the unit (the prompt) it was made for.
IsGenText(entry) == Len(entry) > 0 /\ entry[1] = "summarizer.generate_text: "

GenTextCount(log) == Cardinality({i \in 1..Len(log) : IsGenText(log[i])})

GenerateText(bk, log, unit) ==
    [raised |-> bk.fail_at = GenTextCount(log) + 1,
     text |-> bk.text,
     log |-> Append(log, <<"summarizer.generate_text: ">> \o unit)]

\* ------------------------------------------------------- section synthesizer

Section(title, content) == [title |-> title, content |-> content, screenshots |-> <<>>]

SkipContexts ==
    {<<"b", "r", "o", "w", "s", "i", "n", "g">>,
     <<"c", "o", "m", "m", "u", "n", "i", "c", "a", "t", "i", "o", "n">>,
     <<"m", "u", "s", "i", "c">>,
     <<"m", "e", "d", "i", "a">>,
     <<"u", "n", "k", "n", "o", "w", "n">>}

\* A summary's start_time or end_time is [kind, v]: kind "none" (absent, None
\* or ''), "datetime" (a datetime instance) or "str" (anything else, parsed
\* by fromisoformat(str(x))); v is <<day, minute of the day>>, or <<>> for a
\* string that does not parse.
TimeParses(t) == t.kind = "datetime" \/ (t.kind = "str" /\ Len(t.v) = 2)

\* int((end_dt - start_dt).total_seconds()), 0 when a time is missing or
\* does not parse
SummaryDurationSeconds(summary) ==
    LET start == summary.start_time
        end == summary.end_time
    IN IF start.kind = "none" \/ end.kind = "none" THEN 0
       ELSE IF ~TimeParses(start) \/ ~TimeParses(end) THEN 0
       ELSE ((end.v[1] - start.v[1]) * 1440 + (end.v[2] - start.v[2])) * 60

RECURSIVE TotalDuration(_)
TotalDuration(sums) ==
    IF Len(sums) = 0 THEN 0
    ELSE SummaryDurationSeconds(sums[1]) + TotalDuration(Tail(sums))

\* Mutant: the projects in the order of the dict.
SortProjectsNone(byp) == byp

\* sorted(project_times.keys(), key=lambda p: -project_times[p]): the entries
\* of the ordered dict, stable, longest total time first
RECURSIVE SortProjects(_)
SortProjects(byp) ==
    IF Len(byp) = 0 THEN <<>>
    ELSE LET init == SortProjects(SubSeq(byp, 1, Len(byp) - 1))
             x == byp[Len(byp)]
             n == Cardinality({i \in 1..Len(init) :
                      TotalDuration(init[i].summaries) >= TotalDuration(x.summaries)})
         IN SubSeq(init, 1, n) \o <<x>> \o SubSeq(init, n + 1, Len(init))

\* A synthesis in progress: the sections so far, the generate_text log, and
\* whether a generate_text call has raised (nothing runs after that).
RECURSIVE ProjectSectionsFrom(_, _, _, _)
ProjectSectionsFrom(sorted, bk, k, st) ==
    IF k > Len(sorted) \/ st.raised THEN st
    ELSE LET project == sorted[k].project
             texts == SummaryTexts(sorted[k].summaries)
         IN IF Lower(project) \in SkipContexts \/ Len(texts) = 0
            THEN ProjectSectionsFrom(sorted, bk, k + 1, st)
            ELSE IF bk.available
            THEN LET g == GenerateText(bk, st.log, <<"project">> \o project)
                 IN ProjectSectionsFrom(sorted, bk, k + 1,
                        [sections |-> IF g.raised THEN st.sections
                                      ELSE Append(st.sections,
                                               Section(<<"Project: ">> \o project, g.text)),
                         log |-> g.log,
                         raised |-> g.raised])
            ELSE ProjectSectionsFrom(sorted, bk, k + 1,
                     [st EXCEPT !.sections =
                         Append(@, Section(<<"Project: ">> \o project,
                                           Join(Take(texts, 3), <<" ">>)))])

GenerateProjectSections(byp, bk, log) ==
    ProjectSectionsFrom(SortProjects(byp), bk, 1,
                        [sections |-> <<>>,
                         log |-> Append(log, <<"self._generate_project_sections">>),
                         raised |-> FALSE])

\* f"**{project}**: {'; '.join(texts[:3])}" per retained project with a text,
\* in the order of the dict
RECURSIVE ProjectLines(_)
ProjectLines(byp) ==
    IF Len(byp) = 0 THEN <<>>
    ELSE LET texts == SummaryTexts(byp[1].summaries)
         IN (IF Lower(byp[1].project) \notin SkipContexts /\ Len(texts) > 0
             THEN <<<<"**">> \o byp[1].project \o <<"**: ">>
                       \o Join(Take(texts, 3), <<"; ">>)>>
             ELSE <<>>)
            \o ProjectLines(Tail(byp))

Num(n) == <<ToString(n)>>

ProjectAwareExecutiveSummary(byp, an, bk, log) ==
    LET lines == ProjectLines(byp)
        log1 == Append(log, <<"self._generate_project_aware_executive_summary">>)
    IN IF Len(lines) = 0
       THEN [raised |-> FALSE, log |-> log1,
             text |-> <<"No significant project activity recorded.">>]
       ELSE IF ~bk.available
       THEN [raised |-> FALSE, log |-> log1,
             text |-> <<"Active time: ">> \o Num(an.total_active_minutes)
                      \o <<" minutes.", "\n", "\n">> \o Join(lines, <<"\n">>)]
       ELSE GenerateText(bk, log1, <<"project executive">>)

RECURSIVE AppNames(_)
AppNames(top) ==
    IF Len(top) = 0 THEN <<>> ELSE <<<<top[1].name>>>> \o AppNames(Tail(top))

RECURSIVE Bullets(_, _)
Bullets(texts, n) ==
    IF Len(texts) = 0 THEN <<>>
    ELSE <<<<"- ">> \o Ellipsize(texts[1], n)>> \o Bullets(Tail(texts), n)

NoActivityRecorded == <<"No activity recorded during this period.">>

FallbackText(texts, an) ==
    IF Len(texts) = 0 THEN NoActivityRecorded
    ELSE Join(<<<<"During this period, ">> \o Num(an.total_active_minutes)
                  \o <<" minutes of activity were recorded across ">>
                  \o Num(an.total_sessions) \o <<" sessions.">>,
                <<>>,
                <<"Top applications used: ">>
                  \o Join(AppNames(Take(an.top_apps, 3)), <<", ">>) \o <<".">>,
                <<>>,
                <<"Key activities:">>>>
              \o Bullets(Take(texts, 5), 150),
              <<"\n">>)

\* The parse loop of _group_into_sections over the lines of the response.
\* current_title is <<>> for None and for an empty title: both are falsy.
RECURSIVE ParseLines(_, _, _, _)
ParseLines(lines, sections, current_title, current_content) ==
    IF Len(lines) = 0
    THEN IF Len(current_title) > 0
         THEN Append(sections, Section(current_title, Join(current_content, <<" ">>)))
         ELSE sections
    ELSE LET line == lines[1]
         IN IF StartsWith(line, <<"#", "#", " ">>)
            THEN ParseLines(Tail(lines),
                     IF Len(current_title) > 0
                     THEN Append(sections,
                              Section(current_title, Join(current_content, <<" ">>)))
                     ELSE sections,
                     Strip(SubSeq(line, 4, Len(line))), <<>>)
            ELSE IF Len(Strip(line)) > 0 /\ Len(current_title) > 0
            THEN ParseLines(Tail(lines), sections, current_title,
                            Append(current_content, Strip(line)))
            ELSE ParseLines(Tail(lines), sections, current_title, current_content)

ParseSections(response) == ParseLines(SplitLines(response), <<>>, <<>>, <<>>)

\* Mutant: the theme grouping asks the backend whether it is available or not.
GroupIntoSectionsAlways(sums, bk, log) ==
    LET g == GenerateText(bk, Append(log, <<"self._group_into_sections">>),
                          <<"themes">>)
    IN [sections |-> IF g.raised THEN <<>> ELSE ParseSections(g.text),
        log |-> g.log,
        raised |-> g.raised]

GroupIntoSections(sums, bk, log) ==
    LET log1 == Append(log, <<"self._group_into_sections">>)
    IN IF Len(sums) < 3 \/ Len(SummaryTexts(sums)) = 0 \/ ~bk.available
       THEN [sections |-> <<>>, log |-> log1, raised |-> FALSE]
       ELSE LET g == GenerateText(bk, log1, <<"themes">>)
            IN [sections |-> IF g.raised THEN <<>> ELSE ParseSections(g.text),
                log |-> g.log,
                raised |-> g.raised]

FallbackExecutiveSummary(texts, an, log) ==
    [raised |-> FALSE,
     log |-> Append(log, <<"self._fallback_executive_summary">>),
     text |-> FallbackText(texts, an)]

\* ------------------------------------------------------------------ records

NoTime == [kind |-> "none", v |-> <<>>]

Shot(id, app, title, ts) ==
    [id |-> id, app_name |-> app, window_title |-> title, timestamp |-> ts]

EpochTs(v) == [is_int |-> TRUE, v |-> <<v>>]

IsoTs(day, hour) == [is_int |-> FALSE, v |-> <<day, hour>>]

NativeIds(S) == [is_str |-> FALSE, list |-> S, json |-> {}]

EncodedIds(S) == [is_str |-> TRUE, list |-> {}, json |-> S]

StrTime(day, minute) == [kind |-> "str", v |-> <<day, minute>>]

Summary(text, start, end, ids, project) ==
    [summary |-> text, start_time |-> start, end_time |-> end,
     screenshot_ids |-> ids, project |-> project]

Unavailable == [available |-> FALSE, fail_at |-> 0, text |-> <<>>]

\* ----------------------------------------------------------- report assembler

Report(title, range, executive_summary, sections, an, key, raw) ==
    [title |-> title, time_range |-> range,
     executive_summary |-> executive_summary, sections |-> sections,
     analytics |-> an, key_screenshots |-> key, raw_summaries |-> raw]

\* What a kind's generator hands back: the report, unless a generate_text
\* call raised, and the calls it made.
Outcome(raisedp, log, rep) == [raised |-> raisedp, log |-> log, report |-> rep]

\* Mutant: project mode as soon as there is a project.
UseProjectModeAny(byp) == Len(byp) > 0

\* if summaries_by_project and len(summaries_by_project) > 1
UseProjectMode(byp) == Len(byp) > 1

\* Mutant: no early return for an empty list of summaries.
GenerateSummaryNoEarlyReturn(sums, an, range, byp, bk) ==
    LET log0 == <<<<"self._generate_summary">>>>
        ex == IF bk.available
              THEN GenerateText(bk, log0, <<"executive">>)
              ELSE FallbackExecutiveSummary(SummaryTexts(sums), an, log0)
        secs == GroupIntoSections(sums, bk, ex.log)
    IN IF ex.raised THEN Outcome(TRUE, ex.log, <<>>)
       ELSE Outcome(FALSE, secs.log,
                <<Report(<<"Activity Report: ">> \o range, range, ex.text,
                         secs.sections, an, <<>>, sums)>>)

GenerateSummaryOf(sums, an, range, byp, bk) ==
    LET title == <<"Activity Report: ">> \o range
        log0 == <<<<"self._generate_summary">>>>
    IN IF Len(sums) = 0
       THEN Outcome(FALSE, log0,
                <<Report(title, range, NoActivityRecorded, <<>>, an, <<>>, <<>>)>>)
       ELSE IF UseProjectMode(byp)
       THEN LET secs == GenerateProjectSections(byp, bk, log0)
                ex == ProjectAwareExecutiveSummary(byp, an, bk, secs.log)
            IN IF secs.raised THEN Outcome(TRUE, secs.log, <<>>)
               ELSE IF ex.raised THEN Outcome(TRUE, ex.log, <<>>)
               ELSE Outcome(FALSE, ex.log,
                        <<Report(title, range, ex.text, secs.sections, an, <<>>, sums)>>)
       ELSE LET texts == SummaryTexts(sums)
                ex == IF bk.available
                      THEN GenerateText(bk, log0, <<"executive">>)
                      ELSE FallbackExecutiveSummary(texts, an, log0)
                secs == GroupIntoSections(sums, bk, ex.log)
            IN IF ex.raised THEN Outcome(TRUE, ex.log, <<>>)
               ELSE IF secs.raised THEN Outcome(TRUE, secs.log, <<>>)
               ELSE Outcome(FALSE, secs.log,
                        <<Report(title, range, ex.text, secs.sections, an, <<>>, sums)>>)

\* by_day: the summaries whose start_time parses, grouped by day, in the
\* order the days are first seen
RECURSIVE GroupByDay(_)
GroupByDay(sums) ==
    IF Len(sums) = 0 THEN <<>>
    ELSE LET init == GroupByDay(SubSeq(sums, 1, Len(sums) - 1))
             s == sums[Len(sums)]
         IN IF ~TimeParses(s.start_time) THEN init
            ELSE IF \E i \in 1..Len(init) : init[i].k = s.start_time.v[1]
            THEN [i \in 1..Len(init) |->
                     IF init[i].k = s.start_time.v[1]
                     THEN [k |-> init[i].k, v |-> Append(init[i].v, s)]
                     ELSE init[i]]
            ELSE Append(init, [k |-> s.start_time.v[1], v |-> <<s>>])

\* day_dt.strftime('%A, %B %d')
DayTitle(day) == <<WeekdayName(day), ", ", "day ", ToString(day)>>

RECURSIVE DaySectionsFrom(_, _, _, _)
DaySectionsFrom(days, bk, k, st) ==
    IF k > Len(days) \/ st.raised THEN st
    ELSE LET texts == SummaryTexts(days[k].v)
             title == DayTitle(days[k].k)
         IN IF Len(texts) = 0
            THEN DaySectionsFrom(days, bk, k + 1,
                     [st EXCEPT !.sections =
                         Append(@, Section(title, <<"No detailed activity recorded.">>))])
            ELSE IF bk.available
            THEN LET g == GenerateText(bk, st.log, <<"day ", ToString(days[k].k)>>)
                 IN DaySectionsFrom(days, bk, k + 1,
                        [sections |-> IF g.raised THEN st.sections
                                      ELSE Append(st.sections, Section(title, g.text)),
                         log |-> g.log,
                         raised |-> g.raised])
            ELSE DaySectionsFrom(days, bk, k + 1,
                     [st EXCEPT !.sections =
                         Append(@, Section(title, Join(Take(texts, 3), <<" ">>)))])

GenerateDetailedOf(sums, an, range, bk) ==
    LET secs == DaySectionsFrom(SortByKey(GroupByDay(sums)), bk, 1,
                                [sections |-> <<>>,
                                 log |-> <<<<"self._generate_detailed">>>>,
                                 raised |-> FALSE])
        all_texts == SummaryTexts(sums)
        ex == IF Len(all_texts) > 0 /\ bk.available
              THEN GenerateText(bk, secs.log, <<"executive">>)
              ELSE FallbackExecutiveSummary(all_texts, an, secs.log)
    IN IF secs.raised THEN Outcome(TRUE, secs.log, <<>>)
       ELSE IF ex.raised THEN Outcome(TRUE, ex.log, <<>>)
       ELSE Outcome(FALSE, ex.log,
                <<Report(<<"Detailed Report: ">> \o range, range, ex.text,
                         secs.sections, an, <<>>, sums)>>)

RECURSIVE StandupBullets(_)
StandupBullets(texts) ==
    IF Len(texts) = 0 THEN <<>>
    ELSE <<"- ">> \o Ellipsize(texts[1], 100) \o <<"\n">> \o StandupBullets(Tail(texts))

GenerateStandupOf(sums, an, range, bk) ==
    LET texts == SummaryTexts(sums)
        log0 == <<<<"self._generate_standup">>>>
        c == IF Len(texts) = 0
             THEN [raised |-> FALSE, log |-> log0, text |-> <<"No activity to report.">>]
             ELSE IF bk.available THEN GenerateText(bk, log0, <<"standup">>)
             ELSE [raised |-> FALSE, log |-> log0,
                   text |-> <<"What I worked on:", "\n">>
                            \o StandupBullets(Take(texts, 3))]
    IN IF c.raised THEN Outcome(TRUE, c.log, <<>>)
       ELSE Outcome(FALSE, c.log,
                <<Report(<<"Standup: ">> \o range, range, c.text, <<>>, an, <<>>, sums)>>)

\* Mutant: key_screenshots left as the kind's generator set it.
AssembleReportNoKey(rep, key, sums, an) ==
    [rep EXCEPT !.raw_summaries = sums, !.analytics = an]

\* report.key_screenshots = ...; report.raw_summaries = ...; report.analytics = ...
AssembleReport(rep, key, sums, an) ==
    [rep EXCEPT !.key_screenshots = key, !.raw_summaries = sums, !.analytics = an]

\* ------------------------------------------------- generate(), step by step

\* time_parser.parse(time_range) raises ValueError for a phrase it does not
\* recognise (tracker/timeparser.py is not part of the sources at hand).
TimeParserParses(phrase) == phrase \in {"last week", "yesterday"}

\* time_parser.describe_range(start, end)
RangeDescription(phrase) == <<"range of ", phrase>>

\* storage.get_summaries_by_project: the summaries of the range grouped by
\* their project label, in the order the labels are first seen
\* (tracker/storage.py is not part of the sources at hand).
RECURSIVE StorageByProject(_)
StorageByProject(sums) ==
    IF Len(sums) = 0 THEN <<>>
    ELSE LET init == StorageByProject(SubSeq(sums, 1, Len(sums) - 1))
             x == sums[Len(sums)]
         IN IF \E i \in 1..Len(init) : init[i].project = x.project
            THEN [i \in 1..Len(init) |->
                     IF init[i].project = x.project
                     THEN [project |-> x.project,
                           summaries |-> Append(init[i].summaries, x)]
                     ELSE init[i]]
            ELSE Append(init, [project |-> x.project, summaries |-> <<x>>])

\* Mutant: a phrase that does not parse falls back to a default range.
ParseRangeLenient ==
    /\ pc = "parse"
    /\ pc' = "gather"
    /\ calls' = calls \o <<<<"time_parser.parse">>,
                           <<"time_parser.describe_range">>>>
    /\ UNCHANGED <<args, summaries, by_project, screenshots, sessions,
                   interval_seconds, backend, analytics, key_screenshots, report,
                   raised>>

\* start, end = self.time_parser.parse(time_range); describe_range(start, end)
ParseRange ==
    /\ pc = "parse"
    /\ IF TimeParserParses(args.time_range)
       THEN /\ pc' = "gather"
            /\ calls' = calls \o <<<<"time_parser.parse">>,
                                   <<"time_parser.describe_range">>>>
            /\ UNCHANGED raised
       ELSE /\ pc' = "raised"
            /\ raised' = "ValueError: time_range"
            /\ calls' = Append(calls, <<"time_parser.parse">>)
    /\ UNCHANGED <<args, summaries, by_project, screenshots, sessions,
                   interval_seconds, backend, analytics, key_screenshots, report>>

\* The four reads of the Record Store; what the store holds is the
\* environment's choice.
GatherFrom(sums, shots, sess) ==
    /\ pc = "gather"
    /\ summaries' = sums
    /\ by_project' = IF args.separate_projects THEN StorageByProject(sums) ELSE <<>>
    /\ screenshots' = shots
    /\ sessions' = sess
    /\ calls' = calls \o <<<<"storage.get_summaries_in_range">>>>
                      \o (IF args.separate_projects
                          THEN <<<<"storage.get_summaries_by_project">>>>
                          ELSE <<>>)
                      \o <<<<"storage.get_screenshots_in_range">>,
                           <<"storage.get_sessions_in_range">>>>
    /\ pc' = "analytics"
    /\ UNCHANGED <<args, interval_seconds, backend, analytics, key_screenshots,
                   report, raised>>

\* analytics = self._compute_analytics(screenshots, sessions, start, end)
ComputeAnalytics ==
    /\ pc = "analytics"
    /\ IF AnalyticsRaises(screenshots)
       THEN /\ pc' = "raised"
            /\ raised' = "ValueError: timestamp"
            /\ UNCHANGED analytics
       ELSE /\ pc' = "select"
            /\ analytics' = <<ComputeAnalyticsOf(screenshots, sessions,
                                                 interval_seconds)>>
            /\ UNCHANGED raised
    /\ calls' = calls \o <<<<"self._compute_analytics">>,
                           <<"config.capture.interval_seconds">>>>
    /\ UNCHANGED <<args, summaries, by_project, screenshots, sessions,
                   interval_seconds, backend, key_screenshots, report>>

\* key_screenshots = [] ; if include_screenshots: self._select_key_screenshots
SelectKey ==
    /\ pc = "select"
    /\ key_screenshots' =
           IF args.include_screenshots
           THEN SelectKeyScreenshots(screenshots, summaries, args.max_screenshots)
           ELSE <<>>
    /\ calls' = IF args.include_screenshots
                THEN Append(calls, <<"self._select_key_screenshots">>)
                ELSE calls
    /\ pc' = "content"
    /\ UNCHANGED <<args, summaries, by_project, screenshots, sessions,
                   interval_seconds, backend, analytics, report, raised>>

\* The kind's generator has run: its report is bound to `report`, or the
\* exception of a generate_text call leaves generate().
Generated(o) ==
    /\ calls' = calls \o o.log
    /\ IF o.raised
       THEN /\ pc' = "raised"
            /\ raised' = "BackendError"
            /\ UNCHANGED report
       ELSE /\ pc' = "assemble"
            /\ report' = o.report
            /\ UNCHANGED raised
    /\ UNCHANGED <<args, summaries, by_project, screenshots, sessions,
                   interval_seconds, backend, analytics, key_screenshots>>

GenerateStandup ==
    /\ pc = "content"
    /\ args.report_type = "standup"
    /\ Generated(GenerateStandupOf(summaries, analytics[1],
                                   RangeDescription(args.time_range), backend))

GenerateDetailed ==
    /\ pc = "content"
    /\ args.report_type = "detailed"
    /\ Generated(GenerateDetailedOf(summaries, analytics[1],
                                    RangeDescription(args.time_range), backend))

GenerateSummary ==
    /\ pc = "content"
    /\ args.report_type \notin {"standup", "detailed"}
    /\ Generated(GenerateSummaryOf(summaries, analytics[1],
                                   RangeDescription(args.time_range),
                                   by_project, backend))

\* The three assignments after the dispatch, and return report
Assemble ==
    /\ pc = "assemble"
    /\ report' = <<AssembleReport(report[1], key_screenshots, summaries,
                                  analytics[1])>>
    /\ pc' = "done"
    /\ UNCHANGED <<args, summaries, by_project, screenshots, sessions,
                   interval_seconds, backend, analytics, key_screenshots, calls,
                   raised>>

\* ------------------------------------------------------ one generate() call

MaxGenSums == 3

Api == <<"a", "p", "i">>

Web == <<"w", "e", "b">>

Music == <<"M", "u", "s", "i", "c">>

GenSummaries ==
    {Summary(<<"a">>, StrTime(2, 540), StrTime(2, 570), NativeIds({1}), Api),
     Summary(<<"b">>, StrTime(1, 540), StrTime(1, 600), NativeIds({1}), Web),
     Summary(<<>>, StrTime(1, 600), NoTime, EncodedIds({2}), Music)}

GenActivity ==
    {[screenshots |-> <<>>, sessions |-> <<>>],
     [screenshots |-> <<Shot(1, "Editor", <<"m">>, EpochTs(9)),
                        Shot(2, "Browser", <<>>, IsoTs(0, 13))>>,
      sessions |-> <<[duration_seconds |-> <<90>>]>>]}

Responses ==
    {<<"#", "#", " ", "T", "\n", "x">>,
     <<"#", "#", " ", "T">>,
     <<>>}

Backends ==
    {Unavailable}
        \cup [available : {TRUE}, fail_at : 0..2, text : Responses]

Gather ==
    \E sums \in SeqsUpTo(GenSummaries, MaxGenSums), act \in GenActivity :
        GatherFrom(sums, act.screenshots, act.sessions)

Init ==
    /\ pc = "parse"
    /\ args \in [time_range : {"last week", "gibberish"},
                 report_type : {"summary", "detailed", "standup"},
                 include_screenshots : BOOLEAN,
                 max_screenshots : {1},
                 separate_projects : BOOLEAN]
    /\ backend \in Backends
    /\ interval_seconds = 30
    /\ summaries = <<>>
    /\ by_project = <<>>
    /\ screenshots = <<>>
    /\ sessions = <<>>
    /\ analytics = <<>>
    /\ key_screenshots = <<>>
    /\ report = <<>>
    /\ calls = <<>>
    /\ raised = ""

Next ==
    \/ ParseRange
    \/ Gather
    \/ ComputeAnalytics
    \/ SelectKey
    \/ GenerateStandup
    \/ GenerateDetailed
    \/ GenerateSummary
    \/ Assemble

Spec == Init /\ [][Next]_vars

\* ------------------------------------- the evidence selector on its own

SelApps == {"Editor", "Browser"}

SelShotLists ==
    UNION {{[i \in 1..n |-> Shot(i, apps[i], <<>>, EpochTs(9))] :
               apps \in [1..n -> SelApps]} : n \in 0..MaxShots}

SelIdChoices ==
    {NativeIds(S) : S \in {{}, {1}, {2}, {1, 2}, {MaxShots}}}
        \cup {EncodedIds({1})}

SelSummaries == {Summary(<<"a">>, NoTime, NoTime, ids, Api) : ids \in SelIdChoices}

CallsBeforeAnalytics ==
    <<<<"time_parser.parse">>, <<"time_parser.describe_range">>,
      <<"storage.get_summaries_in_range">>,
      <<"storage.get_summaries_by_project">>,
      <<"storage.get_screenshots_in_range">>,
      <<"storage.get_sessions_in_range">>>>

InitSelect ==
    /\ pc = "select"
    /\ args \in [time_range : {"last week"}, report_type : {"summary"},
                 include_screenshots : {TRUE},
                 max_screenshots : 0..MaxCount, separate_projects : {TRUE}]
    /\ screenshots \in SelShotLists
    /\ summaries \in SeqsUpTo(SelSummaries, MaxSums)
    /\ by_project = StorageByProject(summaries)
    /\ sessions = <<>>
    /\ interval_seconds = 30
    /\ backend = Unavailable
    /\ analytics = <<ComputeAnalyticsOf(screenshots, sessions, interval_seconds)>>
    /\ key_screenshots = <<>>
    /\ report = <<>>
    /\ calls = CallsBeforeAnalytics \o <<<<"self._compute_analytics">>,
                                          <<"config.capture.interval_seconds">>>>
    /\ raised = ""

NextSelect == SelectKey \/ GenerateSummary \/ Assemble

SpecSelect == InitSelect /\ [][NextSelect]_vars

\* ------------------------------------- the analytics engine on its own

MaxAppShots == 6

MaxApps == 11

MaxSessions == 2

Intervals == {15, 30, 60, 90}

LongTitle == [i \in 1..(TitleMax + 1) |-> "w"]

\* Screenshots that differ in their application only.
AppChoices == {"Editor", "Browser", "", Absent}

AppShots(apps) ==
    [i \in 1..Len(apps) |-> Shot(i, apps[i], <<"m">>, EpochTs(9))]

\* One screenshot for each of n applications.
ManyAppShots(n) ==
    [i \in 1..n |-> Shot(i, "app" \o ToString(i), <<"m">>, EpochTs(9))]

\* Screenshots that differ in their timestamp (and window title).
TimedChoices ==
    {[ts |-> EpochTs(9), title |-> <<"m">>],
     [ts |-> IsoTs(0, 9), title |-> LongTitle],
     [ts |-> IsoTs(0, 13), title |-> <<>>],
     [ts |-> IsoTs(0, 18), title |-> <<"m">>],
     [ts |-> EpochTs(33), title |-> <<"m">>],
     [ts |-> [is_int |-> FALSE, v |-> <<>>], title |-> <<"m">>]}

TimedShots(p) ==
    [i \in 1..Len(p) |-> Shot(i, "Editor", p[i].title, p[i].ts)]

SessionLists ==
    SeqsUpTo([duration_seconds : {<<>>, <<30>>, <<60>>, <<150>>}], MaxSessions)

\* Timestamps around the limits of the periods of the day, on two days.
PeriodChoices ==
    {[ts |-> IsoTs(0, 11), title |-> <<"m">>],
     [ts |-> IsoTs(0, 12), title |-> <<"m">>],
     [ts |-> IsoTs(0, 16), title |-> <<"m">>],
     [ts |-> IsoTs(0, 17), title |-> <<"m">>],
     [ts |-> IsoTs(1, 12), title |-> <<"m">>],
     [ts |-> EpochTs(23), title |-> <<"m">>]}

InitAnalytics ==
    /\ pc = "analytics"
    /\ args = [time_range |-> "last week", report_type |-> "summary",
               include_screenshots |-> TRUE, max_screenshots |-> 1,
               separate_projects |-> TRUE]
    /\ \/ /\ \E n \in 0..MaxAppShots :
                 \E apps \in [1..n -> AppChoices] : screenshots = AppShots(apps)
          /\ sessions = <<>>
          /\ interval_seconds = 30
       \/ /\ screenshots \in {ManyAppShots(n) : n \in 0..MaxApps}
          /\ sessions = <<>>
          /\ interval_seconds \in {30, 60}
       \/ /\ \E n \in 0..MaxShots :
                 \E p \in [1..n -> TimedChoices] : screenshots = TimedShots(p)
          /\ sessions = <<>>
          /\ interval_seconds \in Intervals
       \/ /\ screenshots \in {ManyAppShots(n) : n \in 0..3}
          /\ sessions \in SessionLists
          /\ interval_seconds \in {30, 60}
       \/ /\ \E n \in 0..MaxShots :
                 \E p \in [1..n -> PeriodChoices] : screenshots = TimedShots(p)
          /\ sessions = <<>>
          /\ interval_seconds = 30
    /\ summaries = <<>>
    /\ by_project = <<>>
    /\ backend = Unavailable
    /\ analytics = <<>>
    /\ key_screenshots = <<>>
    /\ report = <<>>
    /\ calls = CallsBeforeAnalytics
    /\ raised = ""

SpecAnalytics == InitAnalytics /\ [][ComputeAnalytics]_vars

\* ------------------------------------- the kinds' generators on their own

MaxDetSums == 3

ContentArgs(kind, separate) ==
    [time_range |-> "last week", report_type |-> kind,
     include_screenshots |-> FALSE, max_screenshots |-> 1,
     separate_projects |-> separate]

DatetimeTime(day, minute) == [kind |-> "datetime", v |-> <<day, minute>>]

BadTime == [kind |-> "str", v |-> <<>>]

\* Summaries of three days, with a start_time that is an ISO string, a
\* datetime, a string that does not parse, or missing.
DetSummaries ==
    {Summary(<<"a">>, StrTime(2, 540), StrTime(2, 570), NativeIds({}), Api),
     Summary(<<"b">>, DatetimeTime(1, 540), NoTime, NativeIds({}), Api),
     Summary(<<>>, StrTime(3, 0), NoTime, NativeIds({}), Api),
     Summary(<<"c">>, BadTime, NoTime, NativeIds({}), Api),
     Summary(<<"d">>, NoTime, NoTime, NativeIds({}), Api)}

DetBackends ==
    {Unavailable,
     [available |-> TRUE, fail_at |-> 0, text |-> <<"t">>],
     [available |-> TRUE, fail_at |-> 2, text |-> <<"t">>]}

DetailedInputs ==
    /\ args = ContentArgs("detailed", FALSE)
    /\ summaries \in SeqsUpTo(DetSummaries, MaxDetSums)
    /\ by_project = <<>>
    /\ backend \in DetBackends

MaxStandupSums == 4

TextOf(n, c) == [i \in 1..n |-> c]

\* Texts of one character, of exactly 100 and of 101 characters, and none.
StandupSummaries ==
    {Summary(text, NoTime, NoTime, NativeIds({}), Api) :
        text \in {<<"a">>, TextOf(100, "x"), TextOf(101, "y"), <<>>}}

StandupInputs ==
    /\ args = ContentArgs("standup", FALSE)
    /\ summaries \in SeqsUpTo(StandupSummaries, MaxStandupSums)
    /\ by_project = <<>>
    /\ backend \in {Unavailable, [available |-> TRUE, fail_at |-> 0, text |-> <<"t">>]}

MaxLines == 3

\* Lines a response is made of: headings (one with an empty title, one whose
\* title needs stripping), description lines, an empty line.
ThemeLines ==
    {<<"#", "#", " ", "T">>,
     <<"#", "#", " ">>,
     <<"#", "#", " ", " ", "U", " ">>,
     <<"x">>,
     <<" ", "y", " ">>,
     <<>>}

ThemeResponses == {Join(lines, <<"\n">>) : lines \in SeqsUpTo(ThemeLines, MaxLines)}

ThreeSummaries ==
    <<Summary(<<"a">>, NoTime, NoTime, NativeIds({}), Api),
      Summary(<<"b">>, NoTime, NoTime, NativeIds({}), Api),
      Summary(<<>>, NoTime, NoTime, NativeIds({}), Web)>>

ThemeInputs ==
    /\ args = ContentArgs("summary", FALSE)
    /\ summaries = ThreeSummaries
    /\ by_project = <<>>
    /\ backend \in [available : {TRUE}, fail_at : {0}, text : ThemeResponses]

MaxProjSums == 3

Docs == <<"d", "o", "c", "s">>

\* Summaries of four projects: durations of 30, 60, 120 and 600 minutes, end
\* before start, times that are missing or do not parse, a text or none, and
\* a label of the non-work contexts written with a capital.
ProjSummaries ==
    {Summary(<<"a">>, StrTime(1, 540), StrTime(1, 570), NativeIds({}), Api),
     Summary(<<"c">>, BadTime, StrTime(1, 900), NativeIds({}), Api),
     Summary(<<"b">>, DatetimeTime(1, 540), DatetimeTime(1, 600), NativeIds({}), Web),
     Summary(<<"e">>, StrTime(2, 60), StrTime(2, 0), NativeIds({}), Web),
     Summary(<<>>, StrTime(1, 0), StrTime(1, 120), NativeIds({}), Docs),
     Summary(<<"m">>, StrTime(1, 0), DatetimeTime(1, 600), NativeIds({}), Music)}

ProjectInputs ==
    /\ args = ContentArgs("summary", TRUE)
    /\ summaries \in SeqsUpTo(ProjSummaries, MaxProjSums)
    /\ by_project = StorageByProject(summaries)
    /\ backend \in {Unavailable, [available |-> TRUE, fail_at |-> 0, text |-> <<"t">>]}

InitContent ==
    /\ pc = "content"
    /\ \/ DetailedInputs
       \/ StandupInputs
       \/ ThemeInputs
       \/ ProjectInputs
    /\ screenshots = <<>>
    /\ sessions = <<>>
    /\ interval_seconds = 30
    /\ analytics = <<ComputeAnalyticsOf(screenshots, sessions, interval_seconds)>>
    /\ key_screenshots = <<>>
    /\ report = <<>>
    /\ calls = CallsBeforeAnalytics \o <<<<"self._compute_analytics">>,
                                          <<"config.capture.interval_seconds">>>>
    /\ raised = ""

NextContent ==
    \/ GenerateStandup
    \/ GenerateDetailed
    \/ GenerateSummary
    \/ Assemble

SpecContent == InitContent /\ [][NextContent]_vars

\* ------------------------------------------------------------------ claims

Selected == pc \in {"content", "assemble", "done"}

\* C1: the evidence selector never returns two entries with the same
\* screenshot id, also when several summaries reference the same screenshot.
C1_NoDuplicateIds ==
    Selected =>
        \A i, j \in 1..Len(key_screenshots) :
            i # j => key_screenshots[i].id # key_screenshots[j].id

\* C2: the list the evidence selector returns, and key_screenshots of the
\* report generate() returns, hold at most max_screenshots entries.
C2_AtMostMax ==
    /\ Selected => Len(key_screenshots) <= args.max_screenshots
    /\ pc = "done" => Len(report[1].key_screenshots) <= args.max_screenshots

\* C2 witness: a call returned where the per-summary phase had chosen more
\* than max_screenshots (one, for a maximum of 0), and one where the
\* backfill phase filled the result up to the maximum.
C2_Witness ==
    /\ pc = "done"
    /\ \/ Len(PerSummaryPhase(screenshots, summaries, args.max_screenshots))
              > args.max_screenshots
       \/ /\ Len(PerSummaryPhase(screenshots, summaries, args.max_screenshots))
                 < Len(report[1].key_screenshots)
          /\ Len(report[1].key_screenshots) = args.max_screenshots

Computed == Len(analytics) = 1

AppCount(name) ==
    Cardinality({i \in 1..Len(screenshots) : AppOrUnknown(screenshots[i]) = name})

RECURSIVE SumField(_, _)
SumField(s, f) == IF Len(s) = 0 THEN 0 ELSE s[1][f] + SumField(Tail(s), f)

\* Each percentage is the entry's share of the minutes of all screenshots.
C5_OverFullTotal ==
    Computed =>
        \A i \in 1..Len(analytics[1].top_apps) :
            LET e == analytics[1].top_apps[i]
            IN e.percentage =
                   RoundTenths(AppCount(e.name) * interval_seconds * 100,
                               Len(screenshots) * interval_seconds)

\* The minutes of all applications are at least the minutes top_apps lists.
C5_TotalCoversTop ==
    Computed =>
        Len(screenshots) * interval_seconds
            >= 60 * SumField(analytics[1].top_apps, "minutes")

\* C5: every top_apps percentage is computed against the total of all app
\* minutes, the percentages of top_apps sum to at most 100 (1000 tenths),
\* and the minutes of all apps are at least the minutes top_apps lists.
C5_TopAppsPercentages ==
    /\ C5_OverFullTotal
    /\ Computed => SumField(analytics[1].top_apps, "percentage") <= 1000
    /\ C5_TotalCoversTop

Hours == {ToDatetime(screenshots[i].timestamp).hour : i \in 1..Len(screenshots)}

Days == {ToDatetime(screenshots[i].timestamp).day : i \in 1..Len(screenshots)}

\* C6: the hour histogram and the day list each add up to
\* interval_minutes * len(screenshots) but for what truncating each bucket
\* to whole minutes drops: never more than the total, and short of it by
\* less than one minute per non-empty bucket.
C6_HistogramTotals ==
    Computed =>
        LET total == Len(screenshots) * interval_seconds
            byHour == 60 * SumSeq(analytics[1].activity_by_hour)
            byDay == 60 * SumField(analytics[1].activity_by_day, "minutes")
        IN /\ byHour <= total
           /\ byDay <= total
           /\ Hours = {} => byHour = total /\ byDay = total
           /\ Hours # {} => total - byHour < 60 * Cardinality(Hours)
           /\ Hours # {} => total - byDay < 60 * Cardinality(Days)

\* C6 witness: analytics of screenshots in several hours of one day, where
\* truncation makes the hour histogram add up to less than the day list.
C6_Witness ==
    /\ Computed
    /\ Cardinality(Hours) > 1
    /\ SumSeq(analytics[1].activity_by_hour)
           < SumField(analytics[1].activity_by_day, "minutes")
    /\ 60 * SumField(analytics[1].activity_by_day, "minutes")
           = Len(screenshots) * interval_seconds

\* C3: a generate_text call that raises while is_available() is true never
\* propagates to the caller of generate(): the call still returns a report.
C3_BackendFailureContained ==
    backend.available /\ backend.fail_at > 0 /\ GenTextCount(calls) > 0 =>
        /\ raised # "BackendError"
        /\ pc \in {"assemble", "done"}

ContentRan ==
    pc \in {"assemble", "done"} \/ (pc = "raised" /\ raised = "BackendError")

SummaryRan ==
    /\ ContentRan
    /\ args.report_type \notin {"standup", "detailed"}
    /\ Len(summaries) > 0

Called(method) == InSeq(<<method>>, calls)

RemainingLabels ==
    {by_project[i].project : i \in {j \in 1..Len(by_project) :
                                       Lower(by_project[j].project) \notin SkipContexts}}

\* The path of _generate_summary is the project one exactly when `cond`.
ModeFollows(cond) ==
    /\ Called("self._generate_project_sections") <=> cond
    /\ pc # "raised" /\ cond =>
           /\ Called("self._generate_project_aware_executive_summary")
           /\ ~Called("self._group_into_sections")
    /\ pc # "raised" /\ ~cond =>
           /\ Called("self._group_into_sections")
           /\ ~Called("self._generate_project_aware_executive_summary")

\* C4 as stated: in a summary report with summaries, project mode is used
\* iff more than one project label remains once the non-work contexts are
\* filtered out of summaries_by_project.
C4_ModeByRemainingLabels ==
    SummaryRan => ModeFollows(Cardinality(RemainingLabels) > 1)

\* C4 as amended: project mode is used iff summaries_by_project itself holds
\* more than one label, the non-work contexts counted; the filter only
\* decides which of them get a section.
C4_ModeByAllLabels ==
    SummaryRan => ModeFollows(Len(by_project) > 1)

\* C4 witness: project mode with a single label left after the filter.
C4_Witness ==
    /\ SummaryRan
    /\ pc = "done"
    /\ Called("self._generate_project_sections")
    /\ Cardinality(RemainingLabels) = 1

\* C7: every section of a returned report has non-empty content whenever
\* the synthesis had at least one non-empty summary text to work with.
C7_SectionContentNonEmpty ==
    pc = "done" /\ Len(SummaryTexts(summaries)) > 0 =>
        \A i \in 1..Len(report[1].sections) :
            Len(report[1].sections[i].content) > 0

\* C8: whatever the kind, the returned report carries the key_screenshots,
\* raw_summaries and analytics computed before the dispatch.
C8_KindIndependentFields ==
    pc = "done" =>
        /\ report[1].key_screenshots = key_screenshots
        /\ key_screenshots =
               IF args.include_screenshots
               THEN SelectKeyScreenshots(screenshots, summaries, args.max_screenshots)
               ELSE <<>>
        /\ report[1].raw_summaries = summaries
        /\ report[1].analytics = analytics[1]
        /\ analytics[1] = ComputeAnalyticsOf(screenshots, sessions, interval_seconds)

\* C8 witness: a standup report returned with a selected screenshot.
C8_Witness ==
    /\ pc = "done"
    /\ args.report_type = "standup"
    /\ Len(report[1].key_screenshots) > 0
    /\ Len(report[1].raw_summaries) > 0

\* C9: a time-range phrase that does not parse fails the call at once: no
\* read of the Record Store, no analytics, no backend call, no report.
C9_UnparseableFailsFirst ==
    ~TimeParserParses(args.time_range) =>
        /\ pc \in {"parse", "raised"}
        /\ report = <<>>
        /\ analytics = <<>>
        /\ pc = "raised" =>
               /\ raised = "ValueError: time_range"
               /\ calls = <<<<"time_parser.parse">>>>

\* C9 witness: the call has failed with the input error.
C9_Witness ==
    /\ pc = "raised"
    /\ raised = "ValueError: time_range"
    /\ ~TimeParserParses(args.time_range)

EmptyRange ==
    /\ Called("storage.get_sessions_in_range")
    /\ args.report_type = "summary"
    /\ summaries = <<>>
    /\ screenshots = <<>>
    /\ sessions = <<>>

\* C10: with no screenshots, sessions and summaries a summary report is
\* returned with the "No activity recorded" sentinel, no sections and 0
\* active minutes, and the backend is never called.
C10_EmptyRange ==
    /\ EmptyRange => pc # "raised" /\ GenTextCount(calls) = 0
    /\ EmptyRange /\ pc = "done" =>
           /\ report[1].executive_summary = NoActivityRecorded
           /\ report[1].sections = <<>>
           /\ report[1].analytics.total_active_minutes = 0

\* C10 witness: such a report returned while the backend is available.
C10_Witness ==
    /\ EmptyRange
    /\ pc = "done"
    /\ backend.available

DetailedRan ==
    /\ pc \in {"assemble", "done"}
    /\ args.report_type = "detailed"

\* The calendar days of the summaries whose start_time parses.
ParsedDays ==
    {summaries[i].start_time.v[1] :
        i \in {j \in 1..Len(summaries) : TimeParses(summaries[j].start_time)}}

NthDay(n) ==
    CHOOSE d \in ParsedDays : Cardinality({e \in ParsedDays : e < d}) = n - 1

\* C11: a detailed report has exactly one section per distinct calendar day
\* among the summaries whose start_time parses, the sections are in ascending
\* date order whatever the order of the summaries, and a summary whose
\* start_time does not parse is skipped: only a failing generate_text call
\* makes the call fail.
C11_DaySections ==
    /\ DetailedRan =>
           /\ Len(report[1].sections) = Cardinality(ParsedDays)
           /\ \A i \in 1..Len(report[1].sections) :
                  report[1].sections[i].title = DayTitle(NthDay(i))
    /\ (args.report_type = "detailed" /\ pc = "raised") =>
           (raised = "BackendError" /\ backend.fail_at > 0)

\* C11 witness: a detailed report returned for summaries that hold a later day
\* before an earlier one and a start_time that does not parse.
C11_Witness ==
    /\ pc = "done"
    /\ args.report_type = "detailed"
    /\ \E i, j \in 1..Len(summaries) :
           /\ i < j
           /\ TimeParses(summaries[i].start_time)
           /\ TimeParses(summaries[j].start_time)
           /\ summaries[i].start_time.v[1] > summaries[j].start_time.v[1]
    /\ \E i \in 1..Len(summaries) : summaries[i].start_time = BadTime
    /\ Len(report[1].sections) = 2


HasText(summary) == Len(summary.summary) > 0

\* The non-empty summary texts, in input order.
NonEmptyTexts ==
    LET with == SelectSeq(summaries, HasText)
    IN [i \in 1..Len(with) |-> with[i].summary]

StandupFallbackRan ==
    /\ pc \in {"assemble", "done"}
    /\ args.report_type = "standup"
    /\ ~backend.available
    /\ Len(NonEmptyTexts) > 0

\* C12: with the backend unavailable and at least one non-empty summary text,
\* a standup report has no sections, and the lines of its executive_summary
\* are "What I worked on:" and then one bullet for each of the first 3
\* non-empty texts in input order and no other: the text itself when it has at
\* most 100 characters, its first 100 characters and an ellipsis otherwise.
C12_StandupFallback ==
    StandupFallbackRan =>
        LET lines == SplitLines(report[1].executive_summary)
            n == Min2(3, Len(NonEmptyTexts))
        IN /\ Len(report[1].sections) = 0
           /\ Len(lines) = n + 2
           /\ lines[1] = <<"What I worked on:">>
           /\ lines[n + 2] = <<>>
           /\ \A i \in 1..n :
                  LET text == NonEmptyTexts[i]
                  IN lines[i + 1] =
                         IF Len(text) > 100
                         THEN <<"- ">> \o SubSeq(text, 1, 100) \o <<"...">>
                         ELSE <<"- ">> \o text

\* C12 witness: a standup report returned without the backend for four
\* non-empty texts, among the first three one of 100 and one of 101 characters.
C12_Witness ==
    /\ pc = "done"
    /\ StandupFallbackRan
    /\ Len(NonEmptyTexts) >= 4
    /\ \E i, j \in 1..3 : Len(NonEmptyTexts[i]) = 100 /\ Len(NonEmptyTexts[j]) = 101


\* The generate_text calls made so far for the units of one kind.
UnitCalls(unit) ==
    Cardinality({i \in 1..Len(calls) : IsGenText(calls[i]) /\ calls[i][2] = unit})

\* C13: in one generate call generate_text is never invoked when
\* is_available() is false, no synthesis unit (a project, a calendar day, the
\* theme grouping, the executive summary, the standup block) is asked for
\* twice, there are no more project calls than emitted project sections and no
\* more day calls than day sections, and after a call that failed no other
\* call is made.
C13_OncePerUnit ==
    /\ ~backend.available => GenTextCount(calls) = 0
    /\ \A i, j \in 1..Len(calls) :
           (i < j /\ IsGenText(calls[i])) => calls[i] # calls[j]
    /\ pc \in {"assemble", "done"} =>
           /\ UnitCalls("project") <= Len(report[1].sections)
           /\ UnitCalls("day ") <= Len(report[1].sections)
           /\ UnitCalls("themes") + UnitCalls("executive")
                  + UnitCalls("project executive") + UnitCalls("standup") <= 2
    /\ raised = "BackendError" => GenTextCount(calls) = backend.fail_at

\* C13 witness: a report returned after three generate_text calls (two
\* projects or two days, and the executive summary).
C13_Witness ==
    /\ pc = "done"
    /\ GenTextCount(calls) >= 3
    /\ UnitCalls("project") = 2 \/ UnitCalls("day ") = 2


\* Sum over the sessions of floor(duration_seconds / 60), an absent or null
\* duration counting as 0.
SessionFloorSum ==
    SumSeq([i \in 1..Len(sessions) |->
               IF sessions[i].duration_seconds = <<>> THEN 0
               ELSE sessions[i].duration_seconds[1] \div 60])

\* C14: total_active_minutes is the sum over the sessions of
\* floor(duration_seconds / 60) when that sum is not zero, and otherwise the
\* integer part of the minutes estimated from the screenshots (one capture
\* interval for each screenshot, summed over the applications).
C14_TotalActiveMinutes ==
    Computed =>
        analytics[1].total_active_minutes =
            IF SessionFloorSum # 0 THEN SessionFloorSum
            ELSE (Len(screenshots) * interval_seconds) \div 60

\* C14 witness: sessions exist, one without a duration and one shorter than a
\* minute, and the total falls back to a non-zero screenshot estimate.
C14_Witness ==
    /\ Computed
    /\ \E i, j \in 1..Len(sessions) :
           /\ sessions[i].duration_seconds = <<>>
           /\ sessions[j].duration_seconds = <<30>>
    /\ SessionFloorSum = 0
    /\ analytics[1].total_active_minutes > 0

\* The sum of the sessions is used when it is not zero, whatever the
\* screenshots say.
C14_SessionsWitness ==
    /\ Computed
    /\ SessionFloorSum > 0
    /\ SessionFloorSum # (Len(screenshots) * interval_seconds) \div 60
    /\ analytics[1].total_active_minutes = SessionFloorSum


\* C15: when the per-summary phase chose fewer than max_screenshots, the
\* result holds max_screenshots entries or every screenshot of the range; in
\* particular it holds exactly max_screenshots entries when the range holds at
\* least that many screenshots.
C15_BackfillFills ==
    (/\ Selected
     /\ args.include_screenshots
     /\ Len(PerSummaryPhase(screenshots, summaries, args.max_screenshots))
            < args.max_screenshots)
        => \/ Len(key_screenshots) = args.max_screenshots
           \/ \A i \in 1..Len(screenshots) : InSeq(screenshots[i], key_screenshots)


ThemeRan == pc \in {"assemble", "done"} /\ UnitCalls("themes") = 1

ResponseLines == SplitLines(backend.text)

IsHeadingLine(line) == StartsWith(line, <<"#", "#", " ">>)

IsHeadingAt(i) == IsHeadingLine(ResponseLines[i])

\* The positions of the heading lines of the response, in order.
HeadingPositions ==
    SelectSeq([i \in 1..Len(ResponseLines) |-> i], IsHeadingAt)

IsDescription(line) == ~IsHeadingLine(line) /\ Strip(line) # <<>>

\* The description lines that follow heading k up to the next heading or the
\* end of the text, stripped and joined by single spaces.
ContentAfter(k) ==
    LET from == HeadingPositions[k] + 1
        to == IF k < Len(HeadingPositions) THEN HeadingPositions[k + 1] - 1
              ELSE Len(ResponseLines)
        kept == SelectSeq(SubSeq(ResponseLines, from, to), IsDescription)
    IN Join([i \in 1..Len(kept) |-> Strip(kept[i])], <<" ">>)

HeadingTitle(k) ==
    LET line == ResponseLines[HeadingPositions[k]]
    IN Strip(SubSeq(line, 4, Len(line)))

SectionsFollowHeadings ==
    /\ Len(report[1].sections) = Len(HeadingPositions)
    /\ \A k \in 1..Len(HeadingPositions) :
           /\ report[1].sections[k].title = HeadingTitle(k)
           /\ report[1].sections[k].content = ContentAfter(k)

\* C16: in theme mode the sections are exactly the heading lines of the
\* response, in order: the title is the heading text, the content the
\* following description lines, stripped and joined by single spaces, up to
\* the next heading or the end; what precedes the first heading is dropped.
\* This holds for every response, a heading with an empty title included.
C16_OneSectionPerHeading == ThemeRan => SectionsFollowHeadings

\* The same for the responses all of whose headings have a title.
C16_TitledHeadings ==
    (ThemeRan /\ \A k \in 1..Len(HeadingPositions) : HeadingTitle(k) # <<>>)
        => SectionsFollowHeadings


ProjectSectionsRan ==
    /\ pc \in {"assemble", "done"}
    /\ Called("self._generate_project_sections")

\* end_time - start_time in seconds; 0 when a time is missing or does not
\* parse.
ClaimedDuration(summary) ==
    IF TimeParses(summary.start_time) /\ TimeParses(summary.end_time)
    THEN 60 * ((1440 * summary.end_time.v[1] + summary.end_time.v[2])
               - (1440 * summary.start_time.v[1] + summary.start_time.v[2]))
    ELSE 0

\* The entry of summaries_by_project a section's title names.
EntryOf(section) ==
    CHOOSE i \in 1..Len(by_project) :
        section.title = <<"Project: ">> \o by_project[i].project

ProjectDuration(i) ==
    SumSeq([k \in 1..Len(by_project[i].summaries) |->
               ClaimedDuration(by_project[i].summaries[k])])

IsNonWork(label) == Lower(label) \in SkipContexts

\* C17: the sections of _generate_project_sections are in the order of
\* non-increasing total project duration (a summary with a missing or
\* unparseable time counting as 0), none is for a label that matches browsing,
\* communication, music, media or unknown whatever its case, and a remaining
\* project has a section, one only, exactly when one of its summaries has a
\* non-empty text; no summary's times make the call fail.
C17_ProjectSections ==
    /\ ProjectSectionsRan =>
           LET secs == report[1].sections
           IN /\ \A k \in 1..Len(secs) :
                     \E i \in 1..Len(by_project) :
                         secs[k].title = <<"Project: ">> \o by_project[i].project
              /\ \A k \in 1..(Len(secs) - 1) :
                     ProjectDuration(EntryOf(secs[k]))
                         >= ProjectDuration(EntryOf(secs[k + 1]))
              /\ \A k \in 1..Len(secs) :
                     ~IsNonWork(by_project[EntryOf(secs[k])].project)
              /\ \A i \in 1..Len(by_project) :
                     ~IsNonWork(by_project[i].project) =>
                         (Cardinality({k \in 1..Len(secs) : EntryOf(secs[k]) = i})
                             = IF \E n \in 1..Len(by_project[i].summaries) :
                                       HasText(by_project[i].summaries[n])
                               THEN 1 ELSE 0)
    /\ (Called("self._generate_project_sections") /\ pc = "raised") =>
           (raised = "BackendError" /\ backend.fail_at > 0)

\* C17 witness: the sections of two projects returned in the order opposite
\* to the order of summaries_by_project, which also holds a non-work label.
C17_Witness ==
    /\ pc = "done"
    /\ ProjectSectionsRan
    /\ Len(report[1].sections) = 2
    /\ EntryOf(report[1].sections[1]) > EntryOf(report[1].sections[2])
    /\ \E i \in 1..Len(by_project) : IsNonWork(by_project[i].project)

\* A project none of whose summaries has a text has no section, and a summary
\* whose start_time does not parse counts as 0.
C17_NoTextWitness ==
    /\ pc = "done"
    /\ ProjectSectionsRan
    /\ Len(report[1].sections) = 1
    /\ report[1].sections[1].title = <<"Project: ">> \o Api
    /\ \E i \in 1..Len(by_project) : by_project[i].project = Docs
    /\ \E n \in 1..Len(summaries) : summaries[n].start_time = BadTime


\* The (weekday, period) bucket of screenshot i.
BucketOf(i) ==
    LET dt == ToDatetime(screenshots[i].timestamp)
    IN <<WeekdayName(dt.day), " ",
         IF dt.hour < 12 THEN "morning"
         ELSE IF 12 <= dt.hour /\ dt.hour < 17 THEN "afternoon"
         ELSE "evening">>

BucketCount(key) ==
    Cardinality({i \in 1..Len(screenshots) : BucketOf(i) = key})

\* The position of the first screenshot of a bucket.
FirstSeen(key) ==
    CHOOSE i \in 1..Len(screenshots) :
        /\ BucketOf(i) = key
        /\ \A j \in 1..(i - 1) : BucketOf(j) # key

\* C18: busiest_period is "No activity" for an empty list of screenshots, and
\* otherwise the (weekday, period) bucket that holds the most screenshots, the
\* bucket met first among those that hold the most; the period is morning
\* before 12, afternoon from 12 to before 17, evening from 17 on.
C18_BusiestPeriod ==
    Computed =>
        IF Len(screenshots) = 0
        THEN analytics[1].busiest_period = <<"No activity">>
        ELSE \E i \in 1..Len(screenshots) :
                 /\ analytics[1].busiest_period = BucketOf(i)
                 /\ \A j \in 1..Len(screenshots) :
                        /\ BucketCount(BucketOf(j)) <= BucketCount(BucketOf(i))
                        /\ BucketCount(BucketOf(j)) = BucketCount(BucketOf(i))
                               => FirstSeen(BucketOf(i)) <= FirstSeen(BucketOf(j))

\* C18 witness: two buckets hold the most screenshots, an afternoon with a
\* screenshot of 12 o'clock, which is the result, and an evening with one of
\* 17 o'clock.
C18_Witness ==
    /\ Computed
    /\ \E i, j \in 1..Len(screenshots) :
           /\ BucketOf(i) # BucketOf(j)
           /\ BucketCount(BucketOf(i)) = BucketCount(BucketOf(j))
           /\ analytics[1].busiest_period = BucketOf(i)
           /\ ToDatetime(screenshots[i].timestamp).hour = 12
           /\ ToDatetime(screenshots[j].timestamp).hour = 17

\* C18 for no screenshot at all.
C18_EmptyWitness ==
    /\ Computed
    /\ Len(screenshots) = 0
    /\ analytics[1].busiest_period = <<"No activity">>


====
